---------------------------- MODULE Spec2Model ----------------------------
(***************************************************************************)
(* A model of ffmpeg_vaapi.c: the VAAPI device (VAAPIContext), the         *)
(* per-stream decoder configuration with its surface pool (VAAPIConfig),   *)
(* the frame handles checked out of a pool (VAAPIFrame) and the images     *)
(* retrieved from a surface (VAAPIImage).                                  *)
(*                                                                         *)
(* Every C function is an operator from a program state (the record St)    *)
(* and the call's inputs to the program state it leaves behind; the        *)
(* actions apply one function each.  Host allocation failures and driver   *)
(* refusals are inputs (a "fault" naming the failing call).  Undefined     *)
(* behaviour is an input too (an "ub" record naming the outcome).          *)
(*                                                                         *)
(* Both connection methods (HAVE_VAAPI_DRM, HAVE_VAAPI_X11) are compiled   *)
(* in.                                                                     *)
(***************************************************************************)
EXTENDS Integers, Sequences, FiniteSets, TLC

(* ------------------------------- bounds -------------------------------- *)
\* VAAPIContext objects ever allocated
MaxDevices == 1
\* VAAPIConfig objects ever allocated
MaxConfigs == 2
\* largest AVCodecContext.thread_count given to vaapi_init
MaxThreads == 2
\* frames the pipeline holds at once, counting the handles that failed
\* vaapi_get_buffer calls left behind
MaxFrames == 2
\* free slots the pipeline leaves in a pool it is exhausting (SpecPool)
MaxFree == 2
\* worker threads calling vaapi_get_buffer at once (SpecConc)
MaxWorkers == 2
\* length of the driver's image format list
MaxFormats == 2

(* -------------------------- program constants -------------------------- *)
\* config->nb_surfaces = 16
BasePoolSize == 16
FF_THREAD_FRAME == 1
\* 0xffffffff, as the 32-bit value it is
VA_INVALID_ID == -1

DevIds == 1..MaxDevices
CfgIds == 1..MaxConfigs
Workers == 1..MaxWorkers
MaxSurfaces == BasePoolSize + MaxThreads
Slots == 0..(MaxSurfaces - 1)

\* the rows of vaapi_formats[][2]: << VA fourcc, AVPixelFormat >>
vaapi_formats ==
    << <<"YV12", "YUV420P">>, <<"NV12", "NV12">> >>

\* fourccs a driver may enumerate
Fourccs == {"YV12", "NV12", "YUY2"}

(* ------------------------------- state --------------------------------- *)
VARIABLES
    ist,      \* InputStream/AVCodecContext slots: hwaccel_ctx, hwaccel_context, hooks
    dev,      \* VAAPIContext objects, by device id
    cfg,      \* VAAPIConfig objects, by config id
    va,       \* what the driver and the OS hold (the native handles), and the
              \* release calls of the last operation, in order: << call, object, existed >>
    handles,  \* live VAAPIFrame handles: handles[c][i] of them reference slot i of config c
    images,   \* live VAAPIImage buffers held by frames, per device
    crashed,  \* the process took a fatal signal
    lastOp,   \* the last call made and what it returned
    pc,       \* per worker thread: its place in vaapi_get_buffer (SpecConc)
    loc       \* per worker thread: the locals config and i of vaapi_get_buffer

vars == <<ist, dev, cfg, va, handles, images, crashed, lastOp, pc, loc>>

\* the stream before vaapi_init: ist->hwaccel_ctx, s->hwaccel_context (with the ids
\* vaapi_init stores in it), and whether ist->hwaccel_get_buffer and
\* ist->hwaccel_retrieve_data are set
NoStream ==
    [hwaccel_ctx |-> 0, hwaccel_context |-> FALSE, config_id |-> 0,
     context_id |-> 0, hooks |-> FALSE]

\* a VAAPIContext never allocated
NoDev ==
    [state |-> "none", refcount |-> 0, self |-> FALSE,
     drm_fd |-> "0", dpy |-> FALSE, display |-> "null",
     cur_config |-> 0, cur_config_buf |-> 0,
     img_fmt |-> "none", pix_fmt |-> "none", tmp_frame |-> FALSE]

\* a VAAPIConfig never allocated
NoCfg ==
    [state |-> "none", refcount |-> 0, ctx_buf |-> 0, ctx |-> 0,
     config_id |-> 0, context_id |-> 0,
     surfaces |-> "null", surface_used |-> <<>>, nb_surfaces |-> 0]

\* what the driver and the OS know of one device: connections opened and closed
NoConn ==
    [drm_opens |-> 0, drm_closes |-> 0, x_opens |-> 0, x_closes |-> 0,
     close_unopened |-> 0, display |-> "none"]

\* what the driver holds for one config: whether its surfaces, its VAConfigID and
\* its VAContextID exist
NoObj == [surfaces |-> FALSE, config |-> FALSE, context |-> FALSE]


\* a call and its result.  dev, cfg, slot: the device, config and slot it was about
\* (of vaapi_retrieve_data: the handle it released, when it succeeded); old: the
\* config that was current before vaapi_init or vaapi_uninit; new: the config
\* vaapi_create_config allocated; devref: the device's reference count when
\* vaapi_create_config was entered; att, tc: the active_thread_type and
\* thread_count vaapi_init was given; pf: what the driver answered pick_format,
\* when the call ran it; surface: frame->data[3] after a successful
\* vaapi_get_buffer; image, frame: the VAImage vaCreateImage gave a successful
\* vaapi_retrieve_data and the planes of the frame it returned
NoOp ==
    [op |-> "none", ret |-> "OK", fault |-> "none", dev |-> 0, cfg |-> 0,
     slot |-> -1, note |-> "none", old |-> 0, new |-> 0, devref |-> 0,
     att |-> 0, tc |-> 0, pf |-> [fault |-> "not called", formats |-> <<>>],
     image |-> <<>>, frame |-> <<>>, surface |-> VA_INVALID_ID]

\* the program state as one value
St ==
    [ist |-> ist, dev |-> dev, cfg |-> cfg, va |-> va,
     handles |-> handles, images |-> images, crashed |-> crashed]

Init ==
    /\ ist = NoStream
    /\ dev = [d \in DevIds |-> NoDev]
    /\ cfg = [c \in CfgIds |-> NoCfg]
    /\ va = [conn |-> [d \in DevIds |-> NoConn],
             obj |-> [c \in CfgIds |-> NoObj],
             images |-> 0, mapped |-> 0, calls |-> <<>>, stale_write |-> FALSE]
    /\ handles = [c \in CfgIds |-> [i \in Slots |-> 0]]
    /\ images = [d \in DevIds |-> 0]
    /\ crashed = FALSE
    /\ lastOp = NoOp
    /\ pc = [t \in Workers |-> "idle"]
    /\ loc = [t \in Workers |-> [config |-> 0, i |-> 0]]

\* the state `s` becomes the program's state and `op` the last call
Commit(s, op) ==
    /\ ist' = s.ist
    /\ dev' = s.dev
    /\ cfg' = s.cfg
    /\ va' = s.va
    /\ handles' = s.handles
    /\ images' = s.images
    /\ crashed' = s.crashed
    /\ lastOp' = op

\* a fatal signal: the process stops where it is
Crash(s) == [s EXCEPT !.crashed = TRUE]

\* outcomes of undefined behaviour, chosen per call:
\*   null:   a read through a NULL pointer, or a NULL array handed to the driver:
\*           "segv" the process dies, "benign" the read yields a value the driver refuses
\*   uninit: surface ids read from memory av_malloc_array() left uninitialized:
\*           0 none names a surface, c they name the surfaces of config c
UBOutcomes == [null : {"segv", "benign"}, uninit : {0} \cup CfgIds]

\* the outcome named where a call meets no undefined behaviour
NoUB == [null |-> "segv", uninit |-> 0]

\* the outcomes to tell apart when a call may destroy config c: a live config that
\* has its device and its surfaces is destroyed without undefined behaviour
UBFor(c) ==
    IF c = 0 \/ (cfg[c].ctx # 0 /\ cfg[c].surfaces = "valid")
    THEN {NoUB}
    ELSE UBOutcomes

\* F applied to the value of v
Do(v, F(_)) == CHOOSE r \in {F(x) : x \in {v}} : TRUE

\* one more release call of the operation under way: on object `x` (a config or
\* device id), which existed or not
Logged(s, x, call, existed) ==
    [s EXCEPT !.va.calls = Append(@, <<call, x, existed>>)]

\* the state an operation starts from: no call made yet
Begin == [St EXCEPT !.va.calls = <<>>]

(* ------------------------- vaapi_free_context -------------------------- *)
\* close(ctx->drm_fd): drm_fd is 0 when vaapi_open_drm never assigned it, -1 when
\* both opens failed, else the descriptor (open or already closed by drmClose)
close_drm_fd(s, d) ==
    IF s.dev[d].drm_fd = "fd"
    THEN [s EXCEPT !.va.conn[d].drm_closes = @ + 1]
    ELSE IF s.dev[d].drm_fd = "0"
    THEN [s EXCEPT !.va.conn[d].close_unopened = @ + 1]
    ELSE s

\* if (ctx->dpy) XCloseDisplay(ctx->dpy)
close_dpy(s, d) ==
    IF s.dev[d].dpy
    THEN [s EXCEPT !.va.conn[d].x_closes = @ + 1]
    ELSE s

\* if (ctx->display) vaTerminate(ctx->display)
terminate_display(s, d) ==
    IF s.dev[d].display # "null"
    THEN [s EXCEPT !.va.conn[d].display = "terminated"]
    ELSE s

vaapi_free_context(s, d) ==
    Do(close_drm_fd(s, d), LAMBDA s1 :
    Do(close_dpy(s1, d), LAMBDA s2 :
    Do(terminate_display(s2, d), LAMBDA s3 :
       [s3 EXCEPT !.dev[d] = [NoDev EXCEPT !.state = "freed"]])))

\* av_buffer_unref() of one reference to the device's AVBuffer
unref_ctx(s, d) ==
    IF s.crashed \/ d = 0 THEN s
    ELSE IF s.dev[d].refcount = 1
    THEN Do([s EXCEPT !.dev[d].refcount = 0], LAMBDA s1 : vaapi_free_context(s1, d))
    ELSE [s EXCEPT !.dev[d].refcount = @ - 1]

(* -------------------------- vaapi_free_config -------------------------- *)
\* vaDestroySurfaces(config->ctx->display, config->surfaces, config->nb_surfaces);
\* av_freep(&config->surfaces); av_freep(&config->surface_used).
\* `dpy_ok`: the display read through config->ctx is a display
destroy_surfaces(s, c, ub, dpy_ok) ==
    Do(Logged(s, c, "vaDestroySurfaces",
              dpy_ok /\ s.cfg[c].surfaces = "valid" /\ s.va.obj[c].surfaces),
       LAMBDA s1 :
    Do([s1 EXCEPT !.cfg[c].surfaces = "null", !.cfg[c].surface_used = <<>>],
       LAMBDA freed :
       IF /\ s.cfg[c].surfaces = "null" /\ s.cfg[c].nb_surfaces > 0
          /\ dpy_ok /\ ub.null = "segv"
       THEN Crash(s1)
       ELSE IF s.cfg[c].surfaces = "valid" /\ dpy_ok
       THEN [freed EXCEPT !.va.obj[c].surfaces = FALSE]
       ELSE IF /\ s.cfg[c].surfaces = "invalid0" /\ dpy_ok
               /\ ub.uninit # 0 /\ ub.uninit # c
       THEN [freed EXCEPT !.va.obj[ub.uninit].surfaces = FALSE]
       ELSE freed))

\* if (config->context_id != VA_INVALID_ID) vaDestroyContext(...)
destroy_context(s, c, dpy_ok) ==
    IF s.crashed \/ s.cfg[c].context_id = VA_INVALID_ID THEN s
    ELSE LET hit == dpy_ok /\ s.cfg[c].context_id = c /\ s.va.obj[c].context
         IN  Do(Logged(s, c, "vaDestroyContext", hit), LAMBDA s1 :
                IF hit THEN [s1 EXCEPT !.va.obj[c].context = FALSE] ELSE s1)

\* if (config->config_id != VA_INVALID_ID) vaDestroyConfig(...)
destroy_config(s, c, dpy_ok) ==
    IF s.crashed \/ s.cfg[c].config_id = VA_INVALID_ID THEN s
    ELSE LET hit == dpy_ok /\ s.cfg[c].config_id = c /\ s.va.obj[c].config
         IN  Do(Logged(s, c, "vaDestroyConfig", hit), LAMBDA s1 :
                IF hit THEN [s1 EXCEPT !.va.obj[c].config = FALSE] ELSE s1)

\* av_buffer_unref(&config->ctx_buf); av_freep(&config)
release_ctx_buf(s, c) ==
    IF s.crashed THEN s
    ELSE Do(Logged(s, c, "av_buffer_unref", s.cfg[c].ctx_buf # 0), LAMBDA s1 :
         Do(unref_ctx(s1, s.cfg[c].ctx_buf), LAMBDA s2 :
            [s2 EXCEPT !.cfg[c] = [NoCfg EXCEPT !.state = "freed"]]))

\* the free callback of config c's AVBuffer
vaapi_free_config(s, c, ub) ==
    LET dpy_ok == s.cfg[c].ctx # 0
    IN  IF ~dpy_ok /\ ub.null = "segv"
        THEN Crash(s)
        ELSE Do(destroy_surfaces(s, c, ub, dpy_ok), LAMBDA s1 :
             Do(destroy_context(s1, c, dpy_ok), LAMBDA s2 :
             Do(destroy_config(s2, c, dpy_ok), LAMBDA s3 :
                release_ctx_buf(s3, c))))

\* av_buffer_unref() of one reference to config c's AVBuffer
unref_config(s, c, ub) ==
    IF s.crashed \/ c = 0 THEN s
    ELSE IF s.cfg[c].refcount = 1
    THEN Do([s EXCEPT !.cfg[c].refcount = 0], LAMBDA s1 : vaapi_free_config(s1, c, ub))
    ELSE [s EXCEPT !.cfg[c].refcount = @ - 1]

(* ------------------------ vaapi_release_buffer ------------------------- *)
\* a release that clears every flag of the pool
clear_used_all(s, c, i) ==
    [s EXCEPT !.cfg[c].surface_used = [j \in DOMAIN @ |-> 0]]

\* *priv->used = 0: a write into config c's flag array, or into freed memory
clear_used(s, c, i) ==
    IF s.cfg[c].state = "live" /\ i \in DOMAIN s.cfg[c].surface_used
    THEN [s EXCEPT !.cfg[c].surface_used[i] = 0]
    ELSE [s EXCEPT !.va.stale_write = TRUE]

\* a free callback that drops the config reference before it clears the flag
vaapi_release_buffer_unref_first(s, c, i, ub) ==
    Do(unref_config(s, c, ub), LAMBDA s1 :
    Do(clear_used(s1, c, i), LAMBDA s2 :
       [s2 EXCEPT !.handles[c][i] = @ - 1]))

\* the free callback of a frame handle for slot i of config c
vaapi_release_buffer(s, c, i, ub) ==
    Do(clear_used(s, c, i), LAMBDA s1 :
    Do(unref_config(s1, c, ub), LAMBDA s2 :
       [s2 EXCEPT !.handles[c][i] = @ - 1]))

(* -------------------------- vaapi_free_image --------------------------- *)
\* img: [buf, image_id: whether != VA_INVALID_ID; mapped: whether vaMapBuffer succeeded]
\* if (img->image.buf != VA_INVALID_ID) vaUnmapBuffer(...)
unmap_buffer(s, d, img) ==
    IF ~img.buf THEN s
    ELSE IF img.mapped
    THEN [s EXCEPT !.va.mapped = @ - 1,
                   !.va.calls = Append(@, <<"vaUnmapBuffer", d, TRUE>>)]
    ELSE Logged(s, d, "vaUnmapBuffer", FALSE)

\* a free callback that leaves the driver's image alone
destroy_image_skipped(s, d, img) == s

\* if (img->image.image_id != VA_INVALID_ID) vaDestroyImage(...)
destroy_image(s, d, img) ==
    IF img.image_id
    THEN [s EXCEPT !.va.images = @ - 1,
                   !.va.calls = Append(@, <<"vaDestroyImage", d, TRUE>>)]
    ELSE s

\* the free callback of an image buffer of device d
vaapi_free_image(s, d, img) ==
    Do(unmap_buffer(s, d, img), LAMBDA s1 :
    Do(destroy_image(s1, d, img), LAMBDA s2 :
    Do(Logged(s2, d, "av_buffer_unref", TRUE), LAMBDA s3 :
       unref_ctx(s3, d))))

\* a fully built image, as a frame holds it
FullImage == [buf |-> TRUE, image_id |-> TRUE, mapped |-> TRUE]

(* -------------------------- vaapi_get_buffer --------------------------- *)
\* a call's result: the state it leaves and what it returns
Result(s, ret, note) == [s |-> s, ret |-> ret, note |-> note]

\* a scan from the top of the pool: for (i = config->nb_surfaces - 1; i >= 0; i--)
scan_free_slot_last(used, nb) ==
    IF \E i \in 0..(nb - 1) : used[i] = 0
    THEN CHOOSE i \in 0..(nb - 1) :
            /\ used[i] = 0
            /\ \A j \in (i + 1)..(nb - 1) : used[j] # 0
    ELSE nb

\* a scan that stops one slot early: for (i = 0; i < config->nb_surfaces - 1; i++)
scan_free_slot_short(used, nb) ==
    IF \E i \in 0..(nb - 2) : used[i] = 0
    THEN CHOOSE i \in 0..(nb - 2) :
            /\ used[i] = 0
            /\ \A j \in 0..(i - 1) : used[j] # 0
    ELSE nb

\* for (i = 0; i < config->nb_surfaces; i++) if (!config->surface_used[i]) break;
scan_free_slot(used, nb) ==
    IF \E i \in 0..(nb - 1) : used[i] = 0
    THEN CHOOSE i \in 0..(nb - 1) :
            /\ used[i] = 0
            /\ \A j \in 0..(i - 1) : used[j] # 0
    ELSE nb

\* a handle that borrows the device's reference to the config instead of taking one
ref_config_borrowed(s, c) == s

\* priv->config = av_buffer_ref(ctx->cur_config_buf)
ref_config(s, c) == [s EXCEPT !.cfg[c].refcount = @ + 1]

\* a handle handed out without config->surface_used[i] = 1
claim_slot_unflagged(s, c, i) ==
    [s EXCEPT !.handles[c][i] = @ + 1]

\* frame->buf[0] is created, frame->data[3] = config->surfaces[i] and
\* config->surface_used[i] = 1: the frame holds a handle for slot i of config c
claim_slot(s, c, i) ==
    [s EXCEPT !.cfg[c].surface_used[i] = 1,
              !.handles[c][i] = @ + 1]

\* the VASurfaceID vaCreateSurfaces stored in config->surfaces[i]: one id for each
\* surface of each pool
surface_id(c, i) == c * (BasePoolSize + MaxThreads + 1) + i

\* config->surfaces[i] as vaapi_get_buffer reads it
surface_at(s, c, i) ==
    IF s.cfg[c].surfaces = "valid" THEN surface_id(c, i) ELSE VA_INVALID_ID

\* the result of a successful vaapi_get_buffer, with frame->data[3]
FrameHandle(s, data3) == [s |-> s, ret |-> "OK", note |-> "none", data3 |-> data3]

GetBufferFaults == {"none", "priv_alloc", "config_ref", "buf_create"}

\* the body of vaapi_get_buffer after the scan found slot i of config c free
get_buffer_take(s, c, i, fault) ==
    IF fault = "priv_alloc" THEN Result(s, "ENOMEM", "none")
    ELSE IF fault = "config_ref" THEN Result(s, "ENOMEM", "none")
    ELSE Do(ref_config(s, s.dev[s.ist.hwaccel_ctx].cur_config_buf), LAMBDA s1 :
            IF fault = "buf_create" THEN Result(s1, "ENOMEM", "none")
            ELSE FrameHandle(claim_slot(s1, c, i), surface_at(s1, c, i)))

vaapi_get_buffer(s, fault) ==
    LET c == s.dev[s.ist.hwaccel_ctx].cur_config
        i == scan_free_slot(s.cfg[c].surface_used, s.cfg[c].nb_surfaces)
    IN  IF i = s.cfg[c].nb_surfaces
        THEN Result(s, "ENOMEM", "No free surfaces left.")
        ELSE get_buffer_take(s, c, i, fault)

(* ------------------------- vaapi_retrieve_data ------------------------- *)
RetrieveFaults ==
    {"none", "img_alloc", "ctx_ref", "vaCreateImage", "vaGetImage", "vaMapBuffer",
     "buf_create", "copy_props"}

\* an image that borrows the device's own reference instead of taking one
ref_ctx_borrowed(s, d) == s

\* img->ctx_buf = av_buffer_ref(ctx->self)
ref_ctx(s, d) == [s EXCEPT !.dev[d].refcount = @ + 1]

\* the image as the call has built it when `fault` strikes (when the call succeeds,
\* for "none"): what vaCreateImage and vaMapBuffer have made of it
image_at(fault) ==
    [buf      |-> fault \notin {"img_alloc", "ctx_ref", "vaCreateImage"},
     image_id |-> fault \notin {"img_alloc", "ctx_ref", "vaCreateImage"},
     mapped   |-> fault \in {"buf_create", "copy_props", "none"}]

\* the state the call has reached when `fault` strikes: the device reference taken,
\* the image created, its buffer mapped
state_at(s, d, fault) ==
    LET img == image_at(fault)
    IN  [ref_ctx(s, d) EXCEPT !.va.images = IF img.image_id THEN @ + 1 ELSE @,
                              !.va.mapped = IF img.mapped THEN @ + 1 ELSE @]

\* what the call returns when `fault` strikes
retrieve_error(fault) ==
    CASE fault = "vaCreateImage" -> <<"UNKNOWN", "Error creating an image">>
      [] fault = "vaGetImage" -> <<"UNKNOWN", "Error getting an image">>
      [] fault = "vaMapBuffer" -> <<"UNKNOWN", "Error mapping the image buffer">>
      [] OTHER -> <<"ENOMEM", "none">>

\* the planes of a frame: data[] and linesize[], 0 for a plane that is not set
Planes == {0, 1, 2}

\* the VAImage a driver may give: num_planes, offsets[], pitches[], and the address
\* vaMapBuffer maps its buffer at
ImageLayouts ==
    [num_planes : {2, 3}, offsets : {<<0, 64, 80>>, <<0, 80, 64>>},
     pitches : {<<8, 4, 4>>, <<8, 8, 8>>}, base : {4096}]

DefaultLayout ==
    [num_planes |-> 2, offsets |-> <<0, 64, 80>>, pitches |-> <<8, 8, 8>>,
     base |-> 4096]

\* for (i = 0; i < img->image.num_planes; i++) {
\*     ctx->tmp_frame->data[i]     = data + img->image.offsets[i];
\*     ctx->tmp_frame->linesize[i] = img->image.pitches[i]; }
fill_planes(image) ==
    [data     |-> [p \in Planes |-> IF p < image.num_planes
                                    THEN image.base + image.offsets[p + 1] ELSE 0],
     linesize |-> [p \in Planes |-> IF p < image.num_planes
                                    THEN image.pitches[p + 1] ELSE 0]]

\* an exchange of the chroma pointers whatever the format
swap_chroma_always(frame, format) ==
    [frame EXCEPT !.data[1] = frame.data[2], !.data[2] = frame.data[1]]

\* if (frame->format == AV_PIX_FMT_YUV420P) FFSWAP(uint8_t*, frame->data[1], frame->data[2])
swap_chroma(frame, format) ==
    IF format = "YUV420P"
    THEN [frame EXCEPT !.data[1] = frame.data[2], !.data[2] = frame.data[1]]
    ELSE frame

\* the result of vaapi_retrieve_data, with the planes of the caller's frame
FrameResult(s, ret, note, frame) ==
    [s |-> s, ret |-> ret, note |-> note, frame |-> frame]

\* a frame that takes the image without av_frame_unref(frame)
replace_frame_kept(s, d, c, i, ub) == [s EXCEPT !.images[d] = @ + 1]

\* av_frame_unref(frame); av_frame_move_ref(frame, ctx->tmp_frame): the frame drops
\* its handle for slot i of config c and holds the image instead
replace_frame(s, d, c, i, ub) ==
    Do(vaapi_release_buffer(s, c, i, ub), LAMBDA s1 :
       [s1 EXCEPT !.images[d] = @ + 1])

\* the frame holds the handle for slot i of config c.  Every failure after
\* img->ctx_buf is set ends in vaapi_free_image: called directly, or as the free
\* callback of tmp_frame->buf[0] by av_frame_unref.  `image` is the VAImage
\* vaCreateImage gives; a failing call leaves the caller's frame as it is (<<>>)
vaapi_retrieve_data(s, c, i, fault, image, ub) ==
    LET d == s.ist.hwaccel_ctx
    IN  IF fault \in {"img_alloc", "ctx_ref"} THEN FrameResult(s, "ENOMEM", "none", <<>>)
        ELSE Do(state_at(s, d, fault), LAMBDA s1 :
                IF fault = "none"
                THEN FrameResult(replace_frame(s1, d, c, i, ub), "OK", "none",
                                 swap_chroma(fill_planes(image), s.dev[d].pix_fmt))
                ELSE FrameResult(vaapi_free_image(s1, d, image_at(fault)),
                                 retrieve_error(fault)[1], retrieve_error(fault)[2],
                                 <<>>))

(* ------------------------- vaapi_create_config ------------------------- *)
ThreadTypes == {0, FF_THREAD_FRAME, 2}

\* a pool that grows with thread_count whatever the threading type
pool_size_unconditional(active_thread_type, thread_count) ==
    BasePoolSize + thread_count

\* config->nb_surfaces = 16; if (s->active_thread_type == FF_THREAD_FRAME)
\*     config->nb_surfaces += s->thread_count;
pool_size(active_thread_type, thread_count) ==
    IF active_thread_type = FF_THREAD_FRAME
    THEN BasePoolSize + thread_count
    ELSE BasePoolSize

ConfigFaults ==
    {"none", "profile", "config_alloc", "buf_create", "ctx_ref", "pool_alloc",
     "vaCreateSurfaces", "vaCreateConfig", "vaCreateContext"}

\* the lowest id of a set of ids, 0 when it is empty
Lowest(S) == IF S = {} THEN 0 ELSE CHOOSE x \in S : \A y \in S : x <= y

\* the VAAPIConfig the next av_mallocz() yields, 0 when the model has no more
NewCfg(s) == Lowest({c \in CfgIds : s.cfg[c].state = "none"})

\* config = av_mallocz(); ctx->cur_config_buf = av_buffer_create(config, ...)
alloc_config(s, d, c) ==
    [s EXCEPT !.cfg[c] = [NoCfg EXCEPT !.state = "live", !.refcount = 1],
              !.dev[d].cur_config_buf = c]

\* config->ctx_buf = av_buffer_ref(ctx->self); config->ctx = ctx; both ids are set
\* to VA_INVALID_ID and nb_surfaces to the pool size
bind_device(s, d, c, nb) ==
    [s EXCEPT !.dev[d].refcount = @ + 1,
              !.cfg[c].ctx_buf = d, !.cfg[c].ctx = d,
              !.cfg[c].config_id = VA_INVALID_ID,
              !.cfg[c].context_id = VA_INVALID_ID,
              !.cfg[c].nb_surfaces = nb]

\* the arrays: surfaces from av_malloc_array (uninitialized), surface_used from
\* av_mallocz_array (zeroed); then what vaCreateSurfaces makes of surfaces:
\* "invalid0" when it fails and config->surfaces[0] = VA_INVALID_ID is stored
alloc_pool(s, c, nb, surfaces) ==
    [s EXCEPT !.cfg[c].surfaces = surfaces,
              !.cfg[c].surface_used = [i \in 0..(nb - 1) |-> 0],
              !.va.obj[c].surfaces = (surfaces = "valid")]

\* vaCreateConfig and vaCreateContext
create_ids(s, c, fault) ==
    IF fault = "vaCreateConfig" THEN s
    ELSE IF fault = "vaCreateContext"
    THEN [s EXCEPT !.cfg[c].config_id = c, !.va.obj[c].config = TRUE]
    ELSE [s EXCEPT !.cfg[c].config_id = c, !.va.obj[c].config = TRUE,
                   !.cfg[c].context_id = c, !.va.obj[c].context = TRUE]

\* the config as vaapi_create_config has built it when `fault` strikes (when the
\* call succeeds, for "none")
config_at(s, d, c, nb, fault) ==
    Do(alloc_config(s, d, c), LAMBDA s1 :
       IF fault = "ctx_ref" THEN s1
       ELSE Do(bind_device(s1, d, c, nb), LAMBDA s2 :
               IF fault = "pool_alloc" THEN s2
               ELSE IF fault = "vaCreateSurfaces"
               THEN alloc_pool(s2, c, nb, "invalid0")
               ELSE Do(alloc_pool(s2, c, nb, "valid"), LAMBDA s3 :
                       create_ids(s3, c, fault))))

\* a failure path that returns without releasing the new config
create_config_fail_kept(s, d, ub) == Result(s, "UNKNOWN", "none")

\* fail: av_buffer_unref(&ctx->cur_config_buf); return AVERROR_UNKNOWN
create_config_fail(s, d, ub) ==
    Do([s EXCEPT !.dev[d].cur_config_buf = 0], LAMBDA s1 :
       Result(unref_config(s1, s.dev[d].cur_config_buf, ub), "UNKNOWN", "none"))

\* inp: [fault, active_thread_type, thread_count]; d is ist->hwaccel_ctx
vaapi_create_config(s, d, inp, ub) ==
    LET c  == NewCfg(s)
        nb == pool_size(inp.active_thread_type, inp.thread_count)
    IN  CASE inp.fault = "profile" -> Result(s, "EINVAL", "none")
          [] inp.fault = "config_alloc" -> Result(s, "ENOMEM", "none")
          [] inp.fault = "buf_create" ->
                Result([s EXCEPT !.dev[d].cur_config_buf = 0], "ENOMEM", "none")
          [] OTHER ->
                Do(config_at(s, d, c, nb, inp.fault), LAMBDA s1 :
                   IF inp.fault = "none"
                   THEN Result([s1 EXCEPT !.dev[d].cur_config = c], "OK", "none")
                   ELSE create_config_fail(s1, d, ub))

(* ----------------------------- vaapi_uninit ---------------------------- *)
\* av_buffer_unref(&ctx->self)
drop_self(s, d) ==
    IF s.dev[d].self
    THEN Do([s EXCEPT !.dev[d].self = FALSE], LAMBDA s1 : unref_ctx(s1, d))
    ELSE s

\* With ist->hwaccel_ctx NULL every access to ctx is through a NULL pointer: the
\* process dies, or the reads yield nothing to release and the writes are lost.
vaapi_uninit(s, ub) ==
    LET d == s.ist.hwaccel_ctx
    IN  IF d = 0
        THEN IF ub.null = "segv" THEN Crash(s)
             ELSE [s EXCEPT !.ist.hwaccel_context = FALSE, !.ist.hwaccel_ctx = 0]
        ELSE \* av_buffer_unref(&ctx->cur_config_buf); ctx->cur_config = NULL
             Do([s EXCEPT !.dev[d].cur_config_buf = 0], LAMBDA s0 :
             Do(unref_config(s0, s.dev[d].cur_config_buf, ub), LAMBDA s1 :
                IF s1.crashed THEN s1
                ELSE \* av_freep(&s->hwaccel_context); ist->hwaccel_ctx = NULL
                     Do([s1 EXCEPT !.dev[d].cur_config = 0,
                                   !.ist.hwaccel_context = FALSE,
                                   !.ist.hwaccel_ctx = 0], LAMBDA s2 :
                        drop_self(s2, d))))

(* ----------------------------- pick_format ----------------------------- *)
\* pf: [fault, formats]: what vaMaxNumImageFormats, av_mallocz_array and
\* vaQueryImageFormats do, and the fourccs of the list the driver fills in
FormatLists ==
    UNION {[1..n -> Fourccs] : n \in 0..MaxFormats}

FormatInputs ==
    [fault : {"no_formats", "alloc", "query"}, formats : {<<>>}]
        \cup [fault : {"none"}, formats : FormatLists]

\* the rows i of vaapi_formats with vaapi_formats[i][0] == formats[j].fourcc for some j
MatchingRows(formats) ==
    {i \in 1..Len(vaapi_formats) :
        \E j \in 1..Len(formats) : vaapi_formats[i][1] = formats[j]}

\* a search with the loops exchanged: the first entry of the driver's list that
\* occurs in vaapi_formats
pick_format_driver_order(pf) ==
    LET hits == {k \in 1..Len(pf.formats) :
                    \E i \in 1..Len(vaapi_formats) : vaapi_formats[i][1] = pf.formats[k]}
        j == Lowest(hits)
        i == Lowest({r \in 1..Len(vaapi_formats) : vaapi_formats[r][1] = pf.formats[j]})
        failed(ret) == [ret |-> ret, img_fmt |-> "none", pix_fmt |-> "none", j |-> 0]
    IN  CASE pf.fault = "no_formats" -> failed("EINVAL")
          [] pf.fault = "alloc" -> failed("ENOMEM")
          [] pf.fault = "query" -> failed("EINVAL")
          [] hits = {} -> failed("EINVAL")
          [] OTHER -> [ret |-> "OK", img_fmt |-> pf.formats[j],
                       pix_fmt |-> vaapi_formats[i][2], j |-> j]

\* for (i ...) for (j ...) if (vaapi_formats[i][0] == formats[j].fourcc) { ... return 0; }
pick_format(pf) ==
    LET rows == MatchingRows(pf.formats)
        i == Lowest(rows)
        j == Lowest({k \in 1..Len(pf.formats) : pf.formats[k] = vaapi_formats[i][1]})
        failed(ret) == [ret |-> ret, img_fmt |-> "none", pix_fmt |-> "none", j |-> 0]
    IN  CASE pf.fault = "no_formats" -> failed("EINVAL")
          [] pf.fault = "alloc" -> failed("ENOMEM")
          [] pf.fault = "query" -> failed("EINVAL")
          [] rows = {} -> failed("EINVAL")
          [] OTHER -> [ret |-> "OK", img_fmt |-> pf.formats[j],
                       pix_fmt |-> vaapi_formats[i][2], j |-> j]

(* --------------------- vaapi_open_drm, vaapi_open_x11 ------------------ *)
\* how: "nodevice" ist->hwaccel_device is NULL; "openfail" drmOpen and open fail;
\*      "nodisplay" vaGetDisplayDRM yields NULL; "ok"
vaapi_open_drm(s, d, how) ==
    LET opened == [s EXCEPT !.dev[d].drm_fd = "fd", !.va.conn[d].drm_opens = @ + 1]
    IN  CASE how = "nodevice" -> s
          [] how = "openfail" -> [s EXCEPT !.dev[d].drm_fd = "-1"]
          [] how = "nodisplay" -> [opened EXCEPT !.va.conn[d].drm_closes = @ + 1]
          [] OTHER -> [opened EXCEPT !.dev[d].display = "drm",
                                     !.va.conn[d].display = "got"]

\* how: "openfail" XOpenDisplay yields NULL; "nodisplay" vaGetDisplay yields NULL; "ok"
vaapi_open_x11(s, d, how) ==
    LET opened == [s EXCEPT !.dev[d].dpy = TRUE, !.va.conn[d].x_opens = @ + 1]
    IN  CASE how = "openfail" -> s
          [] how = "nodisplay" -> [opened EXCEPT !.va.conn[d].x_closes = @ + 1]
          [] OTHER -> [opened EXCEPT !.dev[d].display = "x11",
                                     !.va.conn[d].display = "got"]

(* ------------------------ vaapi_create_context ------------------------- *)
ConnInputs ==
    [drm : {"ok"}, x11 : {"openfail"}]
        \cup [drm : {"nodevice", "openfail", "nodisplay"},
              x11 : {"openfail", "nodisplay", "ok"}]

YieldsDisplay(conn) == conn.drm = "ok" \/ conn.x11 = "ok"

DefaultConn == [drm |-> "ok", x11 |-> "openfail"]
DefaultFormats == [fault |-> "none", formats |-> <<"NV12">>]

\* ci: [fault, conn, pf]; each input once: what a failing call never reads is fixed
ContextInputs ==
    [fault : {"ctx_alloc", "self_create", "tmp_frame"},
     conn : {DefaultConn}, pf : {DefaultFormats}]
        \cup [fault : {"none"}, conn : {c \in ConnInputs : ~YieldsDisplay(c)},
              pf : {DefaultFormats}]
        \cup [fault : {"vaInitialize", "vaapi_ctx_alloc"},
              conn : {c \in ConnInputs : YieldsDisplay(c)}, pf : {DefaultFormats}]
        \cup [fault : {"none"}, conn : {c \in ConnInputs : YieldsDisplay(c)},
              pf : FormatInputs]

\* the VAAPIContext the next av_mallocz() yields, 0 when the model has no more
NewDev(s) == Lowest({d \in DevIds : s.dev[d].state = "none"})

\* the stage vaapi_create_context fails at under input ci, "none" when it succeeds
ContextStage(ci) ==
    CASE ci.fault # "none" -> ci.fault
      [] ~YieldsDisplay(ci.conn) -> "no_display"
      [] pick_format(ci.pf).ret # "OK" -> "pick_format"
      [] OTHER -> "none"

\* ctx = av_mallocz(); ctx->self = av_buffer_create(ctx, ...)
alloc_context(s, d) ==
    [s EXCEPT !.dev[d] = [NoDev EXCEPT !.state = "live", !.refcount = 1, !.self = TRUE]]

\* vaapi_open_drm(), then vaapi_open_x11() if (!ctx->display)
open_display(s, d, conn) ==
    Do(vaapi_open_drm(s, d, conn.drm), LAMBDA s1 :
       IF s1.dev[d].display = "null" THEN vaapi_open_x11(s1, d, conn.x11) ELSE s1)

\* the device as vaapi_create_context has built it when it fails under input ci
\* (when it succeeds, if it does): ist->hwaccel_ctx is assigned last
context_at(s, d, ci) ==
    Do(alloc_context(s, d), LAMBDA s1 :
       IF ci.fault = "tmp_frame" THEN s1
       ELSE Do([s1 EXCEPT !.dev[d].tmp_frame = TRUE], LAMBDA s2 :
            Do(open_display(s2, d, ci.conn), LAMBDA s3 :
               IF s3.dev[d].display = "null" \/ ci.fault = "vaInitialize" THEN s3
               ELSE Do([s3 EXCEPT !.va.conn[d].display = "initialized"], LAMBDA s4 :
                    Do(pick_format(ci.pf), LAMBDA pf :
                       IF pf.ret # "OK" THEN s4
                       ELSE Do([s4 EXCEPT !.dev[d].img_fmt = pf.img_fmt,
                                          !.dev[d].pix_fmt = pf.pix_fmt], LAMBDA s5 :
                               IF ci.fault = "vaapi_ctx_alloc" THEN s5
                               \* s->hwaccel_context = av_vaapi_alloc_context():
                               \* a cleared AVVAAPIContext, both ids 0
                               ELSE [s5 EXCEPT !.ist.hwaccel_context = TRUE,
                                               !.ist.config_id = 0,
                                               !.ist.context_id = 0,
                                               !.ist.hwaccel_ctx = d]))))))

\* fail: vaapi_uninit(s); return AVERROR(EINVAL)
vaapi_create_context(s, ci, ub) ==
    IF ci.fault \in {"ctx_alloc", "self_create"}
    THEN Result(s, "ENOMEM", "none")
    ELSE Do(context_at(s, NewDev(s), ci), LAMBDA sx :
            IF ContextStage(ci) = "none"
            THEN Result(sx, "OK", "none")
            ELSE Result(vaapi_uninit(sx, ub), "EINVAL", "VAAPI init failed"))

(* ------------------------------ vaapi_init ----------------------------- *)
\* ki: [fault, active_thread_type, thread_count]; each input once
CreateConfigInputs ==
    [fault : ConfigFaults \ {"none"}, active_thread_type : {FF_THREAD_FRAME},
     thread_count : {1}]
        \cup [fault : {"none"}, active_thread_type : ThreadTypes,
              thread_count : 1..MaxThreads]

DefaultConfig == [fault |-> "none", active_thread_type |-> 0, thread_count |-> 1]
DefaultContext == [fault |-> "none", conn |-> DefaultConn, pf |-> DefaultFormats]

\* inp: [ctx, cfg]: the inputs of vaapi_create_context (read when the stream has
\* no device) and of vaapi_create_config
InitInputs(s) ==
    IF s.ist.hwaccel_ctx # 0
    THEN [ctx : {DefaultContext}, cfg : CreateConfigInputs]
    ELSE [ctx : {ci \in ContextInputs : ContextStage(ci) # "none"},
          cfg : {DefaultConfig}]
            \cup [ctx : {ci \in ContextInputs : ContextStage(ci) = "none"},
                  cfg : CreateConfigInputs]

\* the stage vaapi_init fails at under input inp, "none" when it succeeds
InitStage(s, inp) ==
    IF s.ist.hwaccel_ctx = 0 /\ ContextStage(inp.ctx) # "none"
    THEN "context:" \o ContextStage(inp.ctx)
    ELSE IF inp.cfg.fault # "none" THEN "config:" \o inp.cfg.fault
    ELSE "none"

\* the result of vaapi_init, with the state vaapi_create_config was entered in
InitResult(s, ret, note, pre) == [s |-> s, ret |-> ret, note |-> note, pre |-> pre]

\* s->hwaccel_context->config_id/context_id = ctx->cur_config->...; the hooks
install_hooks(s, d) ==
    [s EXCEPT !.ist.config_id = s.cfg[s.dev[d].cur_config].config_id,
              !.ist.context_id = s.cfg[s.dev[d].cur_config].context_id,
              !.ist.hooks = TRUE]

\* vaapi_init once the stream has device d: the current config is dropped and a
\* new one created
init_config(s, d, inp, ub) ==
    \* av_buffer_unref(&ctx->cur_config_buf); ctx->cur_config = NULL
    Do([s EXCEPT !.dev[d].cur_config_buf = 0], LAMBDA s1 :
    Do(unref_config(s1, s.dev[d].cur_config_buf, ub), LAMBDA s2 :
       IF s2.crashed THEN InitResult(s2, "UNKNOWN", "none", s2)
       ELSE Do([s2 EXCEPT !.dev[d].cur_config = 0], LAMBDA s3 :
            Do(vaapi_create_config(s3, d, inp.cfg, ub), LAMBDA r2 :
               \* the process died in vaapi_free_config: nothing is logged
               IF r2.s.crashed THEN InitResult(r2.s, "UNKNOWN", "none", s3)
               ELSE IF r2.ret # "OK"
               THEN InitResult(r2.s, "UNKNOWN",
                               "Error initializing a VAAPI configuration.", s3)
               ELSE InitResult(install_hooks(r2.s, d), "OK", "none", s3)))))

vaapi_init(s, inp, ub) ==
    IF s.ist.hwaccel_ctx # 0
    THEN init_config(s, s.ist.hwaccel_ctx, inp, ub)
    ELSE Do(vaapi_create_context(s, inp.ctx, ub), LAMBDA r1 :
            IF r1.ret # "OK" \/ r1.s.crashed
            THEN InitResult(r1.s, r1.ret, r1.note, r1.s)
            ELSE Do(r1.s, LAMBDA s1 : init_config(s1, s1.ist.hwaccel_ctx, inp, ub)))

(* ------------------------------- actions ------------------------------- *)
\* what a call returned: nothing when the process died in it
Ret(r) == IF r.s.crashed THEN "SIGSEGV" ELSE r.ret

\* the most frame handles one slot can have: one for each frame the pipeline may
\* hold and each thread that may be in vaapi_get_buffer
MaxHeld == MaxFrames + MaxWorkers

\* the slots some frame holds a handle for
HeldSlots == {p \in CfgIds \X Slots : handles[p[1]][p[2]] > 0}

\* the frame handles of the slots S: the k-th handle of slot p is <<p, k>>
HandlesOf(S) == {q \in S \X (1..MaxHeld) : q[2] <= handles[q[1][1]][q[1][2]]}

\* frames of the pipeline that hold a hardware surface: one for each handle, also
\* when two handles are for the same slot
HeldFrames == Cardinality(HandlesOf(HeldSlots))

\* frames of the pipeline that hold a retrieved image
HeldImages ==
    Cardinality({p \in DevIds \X (1..MaxFrames) : p[2] <= images[p[1]]})

\* references to config c held by no frame handle and not by its device
Leaked(c) ==
    cfg[c].refcount
        - Cardinality(HandlesOf({p \in {c} \X Slots : handles[c][p[2]] > 0}))
        - (IF cfg[c].ctx # 0 /\ dev[cfg[c].ctx].cur_config_buf = c THEN 1 ELSE 0)

\* handles that failed vaapi_get_buffer calls left behind
LeakedHandles ==
    Cardinality(UNION {{c} \X (1..Leaked(c)) : c \in CfgIds})

\* what counts against MaxFrames
Held == HeldFrames + HeldImages + LeakedHandles

Threads == UNCHANGED <<pc, loc>>

\* the outcomes to tell apart in vaapi_init under input inp: a NULL read in a
\* failing vaapi_create_context and in a vaapi_create_config that fails before it
\* has its arrays, uninitialized surface ids when vaCreateSurfaces fails
InitUB(inp) ==
    LET stage == InitStage(St, inp)
    IN  IF stage = "config:vaCreateSurfaces"
        THEN {ub \in UBOutcomes : ub.null = "segv"}
        ELSE IF \/ stage \in {"config:ctx_ref", "config:pool_alloc"}
                \/ (ist.hwaccel_ctx = 0 /\ ContextStage(inp.ctx) # "none")
        THEN {ub \in UBOutcomes : ub.uninit = 0}
        ELSE {NoUB}

\* the pipeline's get_format callback calls the hwaccel's init with inputs from I
VaapiInitWith(I) ==
    /\ ~crashed
    /\ NewCfg(St) # 0
    /\ ist.hwaccel_ctx = 0 => NewDev(St) # 0
    /\ \E inp \in I : \E ub \in InitUB(inp) :
        \E b \in {Begin} : \E r \in {vaapi_init(b, inp, ub)} :
          LET stage == InitStage(St, inp)
              \* the device the call found or allocated
              d == IF ist.hwaccel_ctx # 0 THEN ist.hwaccel_ctx
                   ELSE IF stage \in {"context:ctx_alloc", "context:self_create"}
                   THEN 0 ELSE NewDev(St)
              \* whether vaapi_create_config was entered and allocated a config
              made == stage \notin {"config:profile", "config:config_alloc",
                                    "config:buf_create"}
                        /\ (stage = "none" \/ inp.cfg.fault # "none")
          IN  Commit(r.s, [NoOp EXCEPT !.op = "vaapi_init", !.ret = Ret(r),
                                       !.fault = stage, !.dev = d,
                                       !.cfg = IF d = 0 THEN 0 ELSE r.s.dev[d].cur_config,
                                       !.old = IF ist.hwaccel_ctx = 0 THEN 0
                                               ELSE dev[ist.hwaccel_ctx].cur_config_buf,
                                       !.new = IF made THEN NewCfg(r.pre) ELSE 0,
                                       !.devref = IF d = 0 THEN 0
                                                  ELSE r.pre.dev[d].refcount,
                                       !.att = inp.cfg.active_thread_type,
                                       !.tc = inp.cfg.thread_count,
                                       !.pf = IF /\ ist.hwaccel_ctx = 0
                                                 /\ ContextStage(inp.ctx) \in
                                                      {"pick_format", "vaapi_ctx_alloc",
                                                       "none"}
                                              THEN inp.ctx.pf ELSE @,
                                       !.note = r.note])
    /\ Threads

\* Spec: the driver gives a DRM display and lists NV12; the decoder runs with
\* MaxThreads threads, under every threading type (SpecSize has every thread count)
StreamInputs(s) ==
    [ctx : {DefaultContext},
     cfg : {k \in CreateConfigInputs : k.fault # "none" \/ k.thread_count = MaxThreads}]

\* the pipeline closed the decoder: vaapi_uninit ran on a device of the stream
Closed == ist.hwaccel_ctx = 0 /\ \E d \in DevIds : dev[d].state # "none"

VaapiInit == ~Closed /\ VaapiInitWith(StreamInputs(St))

\* SpecDevice: every way of opening the device
VaapiInitDevice == VaapiInitWith(InitInputs(St))

\* the stream has a device with a current config and the hooks vaapi_init installs
Decoding ==
    /\ ~crashed
    /\ ist.hooks
    /\ ist.hwaccel_ctx # 0
    /\ dev[ist.hwaccel_ctx].cur_config # 0

\* one call of vaapi_get_buffer with the given fault
GetBufferCall(fault) ==
    LET c == dev[ist.hwaccel_ctx].cur_config
    IN  \E b \in {Begin} : \E r \in {vaapi_get_buffer(b, fault)} :
            LET took == {i \in DOMAIN cfg[c].surface_used :
                            r.s.handles[c][i] > handles[c][i]}
            IN  Commit(r.s, [NoOp EXCEPT !.op = "vaapi_get_buffer", !.ret = r.ret,
                                         !.fault = fault, !.dev = ist.hwaccel_ctx,
                                         !.cfg = c, !.note = r.note,
                                         !.slot = IF took = {} THEN -1 ELSE Lowest(took),
                                         !.surface = IF r.ret = "OK" THEN r.data3
                                                     ELSE @])

\* the decoder asks for a buffer for a new picture
GetBuffer ==
    /\ Decoding
    /\ Held < MaxFrames
    /\ \E fault \in GetBufferFaults : GetBufferCall(fault)
    /\ Threads

\* one call of the free callback of the handle for slot i of config c
ReleaseBufferCall(c, i) ==
    /\ handles[c][i] > 0
    /\ \E ub \in UBFor(c) : \E b \in {Begin} : \E s \in {vaapi_release_buffer(b, c, i, ub)} :
          Commit(s, [NoOp EXCEPT !.op = "vaapi_release_buffer", !.cfg = c, !.slot = i,
                                 !.ret = IF s.crashed THEN "SIGSEGV" ELSE "OK"])

\* the pipeline drops its last reference to a frame that holds slot i of config c
ReleaseBuffer ==
    /\ ~crashed
    /\ \E c \in CfgIds, i \in Slots : ReleaseBufferCall(c, i)
    /\ Threads

\* the pipeline asks for the pixels of a frame that holds slot i of config c; the
\* driver lays the image out in one of the ways of Layouts
RetrieveWith(Layouts) ==
    /\ ~crashed
    /\ ist.hooks
    /\ ist.hwaccel_ctx # 0
    /\ \E c \in CfgIds, i \in Slots, fault \in RetrieveFaults :
          /\ handles[c][i] > 0
          /\ cfg[c].ctx = ist.hwaccel_ctx
          /\ \E image \in (IF fault = "none" THEN Layouts ELSE {DefaultLayout}) :
             \E ub \in UBFor(c) : \E b \in {Begin} :
             \E r \in {vaapi_retrieve_data(b, c, i, fault, image, ub)} :
                Commit(r.s, [NoOp EXCEPT !.op = "vaapi_retrieve_data", !.ret = Ret(r),
                                         !.fault = fault, !.dev = ist.hwaccel_ctx,
                                         !.cfg = IF r.ret = "OK" THEN c ELSE 0,
                                         !.slot = IF r.ret = "OK" THEN i ELSE -1,
                                         !.image = IF r.ret = "OK" THEN image ELSE <<>>,
                                         !.frame = r.frame,
                                         !.note = r.note])
    /\ Threads

\* Spec: every image is laid out alike
RetrieveData == RetrieveWith({DefaultLayout})

\* the pipeline drops its last reference to a frame that holds an image of device d
ReleaseImage ==
    /\ ~crashed
    /\ \E d \in DevIds :
          /\ images[d] > 0
          /\ \E b \in {[Begin EXCEPT !.images[d] = @ - 1]} : \E s \in {vaapi_free_image(b, d, FullImage)} :
                Commit(s, [NoOp EXCEPT !.op = "vaapi_free_image", !.dev = d])
    /\ Threads

\* the pipeline closes the decoder
Uninit ==
    /\ ~crashed
    /\ ist.hwaccel_ctx # 0
    /\ \E ub \in UBFor(dev[ist.hwaccel_ctx].cur_config_buf) :
        \E b \in {Begin} : \E s \in {vaapi_uninit(b, ub)} :
          Commit(s, [NoOp EXCEPT !.op = "vaapi_uninit", !.dev = ist.hwaccel_ctx,
                                 !.old = dev[ist.hwaccel_ctx].cur_config_buf,
                                 !.ret = IF s.crashed THEN "SIGSEGV" ELSE "OK"])
    /\ Threads

Next ==
    \/ VaapiInit
    \/ GetBuffer
    \/ ReleaseBuffer
    \/ RetrieveData
    \/ ReleaseImage
    \/ Uninit

\* one decoding thread; every failure of vaapi_create_config and of the calls on
\* frames; the driver gives a DRM display
Spec == Init /\ [][Next]_vars

NextDevice ==
    \/ VaapiInitDevice
    \/ GetBuffer
    \/ ReleaseBuffer
    \/ RetrieveData
    \/ ReleaseImage
    \/ Uninit

\* as Spec, with every way vaapi_create_context can go
SpecDevice == Init /\ [][NextDevice]_vars

(* --------------------- opening and closing devices --------------------- *)
\* inp: [ctx, cfg]: a stream without a device is opened in every way, with the
\* default config; a stream with a device is reconfigured in every way
OpenInputs(s) ==
    IF s.ist.hwaccel_ctx # 0
    THEN [ctx : {DefaultContext}, cfg : CreateConfigInputs]
    ELSE [ctx : ContextInputs, cfg : {DefaultConfig}]

VaapiOpen == VaapiInitWith(OpenInputs(St))

NextOpen ==
    \/ VaapiOpen
    \/ Uninit

\* streams are opened in every way vaapi_create_context can go, reconfigured and
\* closed; no frame is decoded
SpecOpen == Init /\ [][NextOpen]_vars

(* ------------------------- retrieving images --------------------------- *)
\* the driver lists formats of which pick_format finds one
ImageInputs ==
    [ctx : {ci \in ContextInputs : ContextStage(ci) = "none" /\ ci.conn = DefaultConn},
     cfg : {DefaultConfig}]

\* the stream's first vaapi_init, which succeeds with either format
ImageInit ==
    /\ ist.hwaccel_ctx = 0
    /\ VaapiInitWith(ImageInputs)

ImageRetrieve == RetrieveWith(ImageLayouts)

NextImage ==
    \/ ImageInit
    \/ GetBuffer
    \/ ImageRetrieve
    \/ ReleaseImage

\* frames are decoded and read back, in either format and every image layout
SpecImage == Init /\ [][NextImage]_vars

(* ------------------------- exhausting one pool ------------------------- *)
\* free slots of config c's pool
FreeSlots(c) == {i \in DOMAIN cfg[c].surface_used : cfg[c].surface_used[i] = 0}

PoolInputs ==
    [ctx : {DefaultContext}, cfg : {k \in CreateConfigInputs : k.fault = "none"}]

\* the stream's first vaapi_init, which succeeds
PoolInit ==
    /\ ist.hwaccel_ctx = 0
    /\ VaapiInitWith(PoolInputs)

\* the decoder asks for buffers for as long as it likes
PoolGetBuffer ==
    /\ Decoding
    /\ \E fault \in GetBufferFaults :
          /\ fault = "buf_create" => LeakedHandles < MaxFrames
          /\ GetBufferCall(fault)
    /\ Threads

\* the pipeline gives frames back while the pool is all but exhausted
PoolReleaseBuffer ==
    /\ ~crashed
    /\ \E c \in CfgIds, i \in Slots :
          /\ Cardinality(FreeSlots(c)) < MaxFree
          /\ ReleaseBufferCall(c, i)
    /\ Threads

NextPool ==
    \/ PoolInit
    \/ PoolGetBuffer
    \/ PoolReleaseBuffer

\* one config, its pool filled to the last slot
SpecPool == Init /\ [][NextPool]_vars

(* ------------------------- pools of every size -------------------------- *)
\* the stream is configured, and configured again, with every threading type and
\* thread count; every vaapi_create_config succeeds
SizeInit ==
    /\ ~Closed
    /\ VaapiInitWith(PoolInputs)

NextSize ==
    \/ SizeInit
    \/ GetBuffer
    \/ ReleaseBuffer
    \/ Uninit

\* pools of every size are made, used, superseded and torn down
SpecSize == Init /\ [][NextSize]_vars

(* ---------------- vaapi_get_buffer on several threads ------------------ *)
\* handles there are, or are about to be: every reference to a config but its
\* device's, and every thread that is in vaapi_get_buffer
ConcHeld ==
    Held + Cardinality({t \in Workers : pc[t] # "idle"})

\* thread t enters vaapi_get_buffer: config = ctx->cur_config; i = 0
WorkerEnter(t) ==
    /\ Decoding
    /\ pc[t] = "idle"
    /\ ConcHeld < MaxHeld
    /\ Held < MaxFrames
    /\ pc' = [pc EXCEPT ![t] = "scan"]
    /\ loc' = [loc EXCEPT ![t] = [config |-> dev[ist.hwaccel_ctx].cur_config, i |-> 0]]
    /\ UNCHANGED <<ist, dev, cfg, va, handles, images, crashed, lastOp>>

\* thread t runs one iteration of the loop: it reads config->surface_used[i], one
\* flag, with nothing to keep the others as they are until the next read; after
\* the last flag i == config->nb_surfaces and the call returns
WorkerScan(t) ==
    /\ ~crashed
    /\ pc[t] = "scan"
    /\ LET c == loc[t].config
           i == loc[t].i
       IN  IF cfg[c].surface_used[i] = 0
           THEN /\ pc' = [pc EXCEPT ![t] = "found"]
                /\ UNCHANGED <<ist, dev, cfg, va, handles, images, crashed, lastOp, loc>>
           ELSE IF i + 1 < cfg[c].nb_surfaces
           THEN /\ loc' = [loc EXCEPT ![t].i = i + 1]
                /\ UNCHANGED <<ist, dev, cfg, va, handles, images, crashed, lastOp, pc>>
           ELSE /\ \E b \in {Begin} :
                      Commit(b, [NoOp EXCEPT !.op = "vaapi_get_buffer", !.ret = "ENOMEM",
                                             !.dev = ist.hwaccel_ctx, !.cfg = c,
                                             !.note = "No free surfaces left."])
                /\ pc' = [pc EXCEPT ![t] = "idle"]
                /\ loc' = [loc EXCEPT ![t] = [config |-> 0, i |-> 0]]

\* thread t runs the rest of vaapi_get_buffer with the slot its loop stopped at
WorkerTake(t) ==
    /\ ~crashed
    /\ pc[t] = "found"
    /\ \E fault \in GetBufferFaults : \E b \in {Begin} :
         \E r \in {get_buffer_take(b, loc[t].config, loc[t].i, fault)} :
            Commit(r.s, [NoOp EXCEPT !.op = "vaapi_get_buffer", !.ret = r.ret,
                                     !.fault = fault, !.dev = ist.hwaccel_ctx,
                                     !.cfg = loc[t].config, !.note = r.note,
                                     !.slot = IF r.ret = "OK" THEN loc[t].i ELSE -1,
                                     !.surface = IF r.ret = "OK" THEN r.data3
                                                 ELSE @])
    /\ pc' = [pc EXCEPT ![t] = "idle"]
    /\ loc' = [loc EXCEPT ![t] = [config |-> 0, i |-> 0]]

WorkerEnters == \E t \in Workers : WorkerEnter(t)

WorkerScans == \E t \in Workers : WorkerScan(t)

WorkerTakes == \E t \in Workers : WorkerTake(t)

NextConc ==
    \/ PoolInit
    \/ WorkerEnters
    \/ WorkerScans
    \/ WorkerTakes
    \/ ReleaseBuffer

\* the decoder's worker threads call vaapi_get_buffer with nothing to order them
SpecConc == Init /\ [][NextConc]_vars

(* ------------------------------- claims -------------------------------- *)
\* the release calls the last operation made on an object x that existed, as
\* places in va.calls
Calls(call, x) ==
    {n \in 1..Len(va.calls) :
        va.calls[n][1] = call /\ va.calls[n][2] = x /\ va.calls[n][3]}

\* every place of A is before every place of B
Before(A, B) == \A a \in A, b \in B : a < b

\* configs no device holds as its current config
NotCurrent(c) == \A d \in DevIds : dev[d].cur_config_buf # c

\* C1: with the calls issued one at a time, no slot of a pool is referenced by two
\* live frame handles at once; a slot's flag is set exactly while a handle
\* references it, so the slot of a released handle is free (flag 0) and the scan of
\* a later vaapi_get_buffer can stop at it.
C1_SlotExclusive ==
    \A c \in CfgIds :
        /\ \A i \in Slots : handles[c][i] <= 1
        /\ cfg[c].state = "live" =>
              \A i \in DOMAIN cfg[c].surface_used :
                  (cfg[c].surface_used[i] = 1) <=> (handles[c][i] = 1)
        /\ (lastOp.op = "vaapi_release_buffer" /\ lastOp.cfg = c
                /\ cfg[c].state = "live") =>
              /\ cfg[c].surface_used[lastOp.slot] = 0
              /\ scan_free_slot(cfg[c].surface_used, cfg[c].nb_surfaces) <= lastOp.slot

\* slot 0 was released and handed out again while slot 1 stayed checked out
C1_Reacquired ==
    /\ lastOp.op = "vaapi_get_buffer"
    /\ lastOp.ret = "OK"
    /\ lastOp.slot = 0
    /\ handles[lastOp.cfg][1] = 1

\* what C2 says of one call of vaapi_get_buffer
C2_Step ==
    lastOp'.op = "vaapi_get_buffer" =>
        LET c    == lastOp'.cfg
            free == FreeSlots(c)
        IN  /\ free = {} =>
                  /\ lastOp'.ret = "ENOMEM"
                  /\ lastOp'.note = "No free surfaces left."
                  /\ cfg' = cfg
                  /\ handles' = handles
            /\ (free # {} /\ lastOp'.fault = "none") =>
                  /\ lastOp'.ret = "OK"
                  /\ lastOp'.slot \in free
                  /\ handles'[c][lastOp'.slot] = 1
                  /\ cfg'[c].surface_used =
                        [cfg[c].surface_used EXCEPT ![lastOp'.slot] = 1]
            /\ (free = {lastOp.slot} /\ lastOp.op = "vaapi_release_buffer"
                    /\ lastOp'.fault = "none") =>
                  lastOp'.slot = lastOp.slot

\* C2: while a pool has a free slot every vaapi_get_buffer (whose allocations
\* succeed) succeeds and takes a free slot, so N calls fill a pool of N free slots;
\* on a full pool the call fails with "No free surfaces left." and changes no flag;
\* after one release from a full pool the next call returns the slot just freed.
C2_Exhaustion == [][C2_Step]_vars

\* a pool that was filled, had slots released, and is full again: the last call
\* took a slot below the last one
C2_Refilled ==
    /\ lastOp.op = "vaapi_get_buffer"
    /\ lastOp.ret = "OK"
    /\ FreeSlots(lastOp.cfg) = {}
    /\ lastOp.slot < cfg[lastOp.cfg].nb_surfaces - 1

\* what C3 says of the config a successful vaapi_init made
C3_Sized ==
    (lastOp.op = "vaapi_init" /\ lastOp.ret = "OK") =>
        LET k == cfg[lastOp.cfg]
        IN  /\ k.nb_surfaces =
                  (IF lastOp.att = FF_THREAD_FRAME THEN 16 + lastOp.tc ELSE 16)
            /\ DOMAIN k.surface_used = 0..(k.nb_surfaces - 1)
            /\ \A i \in DOMAIN k.surface_used : k.surface_used[i] = 0

\* what C3 says of a config that lives through a step
C3_Fixed ==
    \A c \in CfgIds :
        (cfg[c].state = "live" /\ cfg'[c].state = "live") =>
            /\ cfg'[c].nb_surfaces = cfg[c].nb_surfaces
            /\ DOMAIN cfg'[c].surface_used = DOMAIN cfg[c].surface_used

\* C3: the config a successful vaapi_init makes has 16 slots, plus thread_count
\* when active_thread_type is FF_THREAD_FRAME, all of them free; and no later call
\* changes the pool size of a config for as long as the config exists.
C3_PoolSize == [][C3_Sized' /\ C3_Fixed]_vars

\* a frame-threaded stream with more than one thread got its larger pool, while the
\* config it superseded, of another size, is kept alive by a frame
C3_FrameThreaded ==
    /\ lastOp.op = "vaapi_init"
    /\ lastOp.ret = "OK"
    /\ lastOp.att = FF_THREAD_FRAME
    /\ lastOp.tc > 1
    /\ cfg[lastOp.cfg].nb_surfaces = 16 + lastOp.tc
    /\ \E c \in CfgIds :
          /\ cfg[c].state = "live"
          /\ cfg[c].nb_surfaces # cfg[lastOp.cfg].nb_surfaces

\* C4: a config exists for as long as a frame handle checked out of it does, and a
\* device (with its display) for as long as a config or an image buffer made
\* against it does: also once the config is superseded and once vaapi_uninit has
\* dropped the device's own reference.
C4_Lifetimes ==
    /\ \A c \in CfgIds :
          (\E i \in Slots : handles[c][i] > 0) =>
              /\ cfg[c].state = "live"
              /\ cfg[c].refcount > 0
    /\ \A c \in CfgIds :
          (cfg[c].state = "live" /\ cfg[c].ctx_buf # 0) =>
              /\ dev[cfg[c].ctx_buf].state = "live"
              /\ dev[cfg[c].ctx_buf].refcount > 0
              /\ va.conn[cfg[c].ctx_buf].display # "terminated"
    /\ \A d \in DevIds :
          images[d] > 0 =>
              /\ dev[d].state = "live"
              /\ dev[d].refcount > 0
              /\ va.conn[d].display # "terminated"

\* after vaapi_uninit: a handle of a superseded config and an image are still held
C4_Outlive ==
    /\ Closed
    /\ \E c \in CfgIds, i \in Slots :
          /\ handles[c][i] > 0
          /\ \E c2 \in CfgIds : c2 > c /\ cfg[c2].state # "none"
    /\ \E d \in DevIds : images[d] > 0 /\ ~dev[d].self

\* C5: when a config is destroyed the driver sees vaDestroyContext, then
\* vaDestroyConfig, then vaDestroySurfaces, and then the config's device reference
\* is released.
C5_DestroyOrder ==
    \A c \in CfgIds :
        /\ Before(Calls("vaDestroyContext", c), Calls("vaDestroyConfig", c))
        /\ Before(Calls("vaDestroyConfig", c), Calls("vaDestroySurfaces", c))
        /\ Before(Calls("vaDestroySurfaces", c), Calls("av_buffer_unref", c))

\* the stages vaapi_create_context can fail at once the device is allocated
C6_Stages ==
    {"context:tmp_frame", "context:no_display", "context:vaInitialize",
     "context:pick_format", "context:vaapi_ctx_alloc"}

\* C6: when vaapi_create_context fails after it allocated the device, it returns
\* with every connection and display it opened closed, the device freed, and no
\* device on the stream.
C6_CreateDeviceCleanup ==
    (lastOp.op = "vaapi_init" /\ lastOp.fault \in C6_Stages) =>
        /\ ~crashed
        /\ ist.hwaccel_ctx = 0
        /\ dev[lastOp.dev].state = "freed"
        /\ va.conn[lastOp.dev].drm_closes = va.conn[lastOp.dev].drm_opens
        /\ va.conn[lastOp.dev].x_closes = va.conn[lastOp.dev].x_opens
        /\ va.conn[lastOp.dev].display \in {"none", "terminated"}

\* the steps of vaapi_create_config C7 names
C7_Stages ==
    {"config:ctx_ref", "config:pool_alloc", "config:vaCreateSurfaces",
     "config:vaCreateConfig", "config:vaCreateContext"}

\* C7: when vaapi_create_config fails at one of these steps, it returns with the
\* driver objects it had made destroyed, the config and its device reference
\* released, and the device's reference count what it was before the call.
C7_CreateConfigRollback ==
    (lastOp.op = "vaapi_init" /\ lastOp.fault \in C7_Stages) =>
        /\ ~crashed
        /\ cfg[lastOp.new].state = "freed"
        /\ va.obj[lastOp.new] = NoObj
        /\ dev[lastOp.dev].refcount = lastOp.devref

\* what C8 says of one call of vaapi_retrieve_data
C8_Step ==
    (lastOp'.op = "vaapi_retrieve_data" /\ lastOp'.ret # "OK") =>
        /\ ~crashed'
        /\ va'.images = va.images
        /\ va'.mapped = va.mapped
        /\ dev' = dev
        /\ cfg' = cfg
        /\ handles' = handles
        /\ images' = images

\* C8: when vaapi_retrieve_data fails, the driver holds the images it held before
\* the call and no other, none is left mapped, the device (its reference count
\* with it) is as it was before the call, and so are the frames: every handle is
\* still held and its slot still in use.
C8_RetrieveRollback == [][C8_Step]_vars

\* vaMapBuffer failed: the image the call had created was destroyed, and the
\* frame's handle is still there
C8_MapFailed ==
    /\ lastOp.op = "vaapi_retrieve_data"
    /\ lastOp.fault = "vaMapBuffer"
    /\ lastOp.ret = "UNKNOWN"
    /\ Calls("vaDestroyImage", lastOp.dev) # {}
    /\ \E c \in CfgIds, i \in Slots : handles[c][i] = 1 /\ cfg[c].surface_used[i] = 1

\* C9: a config that is no longer its device's current config exists exactly while
\* frame handles of it are outstanding: it survives every release but the last,
\* is destroyed by the last, and is destroyed at once when none is outstanding.
C9_SupersededLifetime ==
    ~crashed =>
        \A c \in CfgIds :
            (cfg[c].state # "none" /\ NotCurrent(c)) =>
                (cfg[c].state = "live" <=> \E i \in Slots : handles[c][i] > 0)

\* C10: under every interleaving of the threads no two of them obtain a handle
\* for the same slot: the scan and the setting of the flag act as one step.
C10_AtomicAcquire ==
    \A c \in CfgIds, i \in Slots : handles[c][i] <= 1


\* what C11 says of one call of vaapi_release_buffer
C11_Step ==
    lastOp'.op = "vaapi_release_buffer" =>
        LET c == lastOp'.cfg
            i == lastOp'.slot
        IN  /\ handles' = [handles EXCEPT ![c][i] = @ - 1]
            /\ \A c2 \in CfgIds \ {c} : cfg'[c2] = cfg[c2]
            /\ IF cfg[c].refcount > 1
               THEN cfg'[c] = [cfg[c] EXCEPT !.refcount = @ - 1,
                                             !.surface_used[i] = 0]
               ELSE cfg'[c].state = "freed"

\* C11: releasing the handle for slot i of a config clears flag i and drops one
\* reference to the config (which destroys it when that was the last one); every
\* other flag of the config and every other config stay as they were.
C11_ReleaseEffect == [][C11_Step]_vars

\* a handle was released while another slot of its config stayed in use
C11_OthersKept ==
    /\ lastOp.op = "vaapi_release_buffer"
    /\ cfg[lastOp.cfg].state = "live"
    /\ \E j \in DOMAIN cfg[lastOp.cfg].surface_used :
          j # lastOp.slot /\ cfg[lastOp.cfg].surface_used[j] = 1


\* C12: pick_format takes the first row of vaapi_formats (YV12, then NV12) whose
\* fourcc occurs anywhere in the list the driver enumerates, wherever it stands
\* there, and stores the pixel format of that row; it fails when neither occurs.
C12_Negotiation ==
    lastOp.pf.fault = "none" =>
        LET L  == lastOp.pf.formats
            d  == lastOp.dev
            ok == lastOp.fault # "context:pick_format"
        IN  IF \E j \in 1..Len(L) : L[j] = "YV12"
            THEN ok /\ dev[d].img_fmt = "YV12" /\ dev[d].pix_fmt = "YUV420P"
            ELSE IF \E j \in 1..Len(L) : L[j] = "NV12"
            THEN ok /\ dev[d].img_fmt = "NV12" /\ dev[d].pix_fmt = "NV12"
            ELSE ~ok /\ lastOp.ret \in {"EINVAL", "SIGSEGV"}

\* the driver lists NV12 before YV12, and YV12 was taken
C12_DriverOrderIgnored ==
    /\ lastOp.pf.fault = "none"
    /\ lastOp.pf.formats = <<"NV12", "YV12">>
    /\ lastOp.ret = "OK"
    /\ dev[lastOp.dev].img_fmt = "YV12"
    /\ dev[lastOp.dev].pix_fmt = "YUV420P"


\* the pointer C13 expects where plane p of the image is put
C13_Pointer(image, p) ==
    IF p < image.num_planes THEN image.base + image.offsets[p + 1] ELSE 0

\* C13: after a successful vaapi_retrieve_data the frame's plane p has the stride
\* pitches[p] and the pointer base + offsets[p], for every plane of the image;
\* except that with the YV12/YUV420P pair the pointers of planes 1 and 2 are
\* exchanged.  With NV12 none is exchanged.
C13_Planes ==
    (lastOp.op = "vaapi_retrieve_data" /\ lastOp.ret = "OK") =>
        LET im   == lastOp.image
            f    == lastOp.frame
            swap == dev[lastOp.dev].pix_fmt = "YUV420P"
        IN  /\ \A p \in Planes :
                  p < im.num_planes => f.linesize[p] = im.pitches[p + 1]
            /\ f.data[0] = C13_Pointer(im, 0)
            /\ f.data[1] = C13_Pointer(im, IF swap THEN 2 ELSE 1)
            /\ f.data[2] = C13_Pointer(im, IF swap THEN 1 ELSE 2)

\* a YV12 image of three planes was retrieved: plane 1 of the frame points at the
\* image's third plane
C13_Swapped ==
    /\ lastOp.op = "vaapi_retrieve_data"
    /\ lastOp.ret = "OK"
    /\ dev[lastOp.dev].img_fmt = "YV12"
    /\ lastOp.image.num_planes = 3
    /\ lastOp.frame.data[1] = lastOp.image.base + lastOp.image.offsets[3]
    /\ lastOp.frame.data[2] = lastOp.image.base + lastOp.image.offsets[2]
    /\ lastOp.image.offsets[2] # lastOp.image.offsets[3]


\* what C14 says of one call of vaapi_retrieve_data
C14_Step ==
    (lastOp'.op = "vaapi_retrieve_data" /\ lastOp'.ret # "OK") =>
        LET d == lastOp'.dev
        IN  /\ ist' = ist
            /\ dev'[d] = dev[d]
            /\ dev'[d].state = "live"
            /\ dev'[d].cur_config # 0 =>
                  /\ cfg'[dev'[d].cur_config] = cfg[dev[d].cur_config]
                  /\ cfg'[dev'[d].cur_config].state = "live"
                  /\ FreeSlots(dev[d].cur_config) # {} =>
                        vaapi_get_buffer(St', "none").ret = "OK"
            /\ \E c \in CfgIds, i \in Slots :
                  /\ handles'[c][i] > 0
                  /\ vaapi_retrieve_data(St', c, i, "none", DefaultLayout, NoUB).ret = "OK"

\* C14: a failed vaapi_retrieve_data leaves the device alive and as it was, its
\* current config the same one with the same flags and reference count; a
\* vaapi_get_buffer and a vaapi_retrieve_data made next can succeed.
C14_DeviceIntact == [][C14_Step]_vars

\* av_frame_copy_props failed, the last step that can: the stream still decodes
\* and the frame's handle is one of the current config
C14_LateFailure ==
    /\ lastOp.op = "vaapi_retrieve_data"
    /\ lastOp.fault = "copy_props"
    /\ lastOp.ret # "OK"
    /\ Decoding
    /\ \E i \in Slots : handles[dev[lastOp.dev].cur_config][i] = 1


\* C15: over a device's lifetime every DRM descriptor and X11 display that was
\* opened is closed exactly once (none is closed twice, none is left open when the
\* device is destroyed) and no handle that was never opened is closed.
C15_ClosedOnce ==
    \A d \in DevIds :
        /\ va.conn[d].close_unopened = 0
        /\ va.conn[d].drm_closes <= va.conn[d].drm_opens
        /\ va.conn[d].x_closes <= va.conn[d].x_opens
        /\ dev[d].state = "freed" =>
              /\ va.conn[d].drm_closes = va.conn[d].drm_opens
              /\ va.conn[d].x_closes = va.conn[d].x_opens


\* the driver's destroy calls
DriverDestroys == {"vaDestroySurfaces", "vaDestroyContext", "vaDestroyConfig"}

\* C16: when vaapi_create_config fails at any step after the config was allocated,
\* the teardown of the partial config issues a driver destroy call only for the
\* surfaces, VAConfigID and VAContextID that were created: what was never created
\* holds the invalid id and is skipped.
C16_InvalidSkipped ==
    (lastOp.op = "vaapi_init" /\ lastOp.fault \in C7_Stages) =>
        \A n \in 1..Len(va.calls) :
            (va.calls[n][1] \in DriverDestroys /\ va.calls[n][2] = lastOp.new) =>
                va.calls[n][3]


\* config c holds everything vaapi_create_config acquires
FullyCreated(c) ==
    /\ cfg[c].state = "live"
    /\ cfg[c].ctx # 0 /\ cfg[c].ctx_buf = cfg[c].ctx
    /\ cfg[c].surfaces = "valid"
    /\ DOMAIN cfg[c].surface_used = 0..(cfg[c].nb_surfaces - 1)
    /\ cfg[c].config_id = c /\ cfg[c].context_id = c

\* what C17 says of one step
C17_Step ==
    /\ \A d \in DevIds :
          /\ (dev'[d].cur_config # 0 /\ dev'[d].cur_config # dev[d].cur_config) =>
                /\ lastOp'.op = "vaapi_init" /\ lastOp'.ret = "OK"
                /\ lastOp'.fault = "none" /\ lastOp'.dev = d
                /\ lastOp'.new = dev'[d].cur_config
          /\ dev'[d].cur_config # 0 =>
                /\ dev'[d].cur_config_buf = dev'[d].cur_config
                /\ \A c \in CfgIds : c = dev'[d].cur_config => FullyCreated(c)'
          /\ \A c \in CfgIds :
                cfg[c].state = "freed" =>
                    dev'[d].cur_config # c /\ dev'[d].cur_config_buf # c
    /\ (lastOp'.op = "vaapi_init" /\ lastOp'.ret = "OK") =>
          /\ dev'[lastOp'.dev].cur_config = lastOp'.new
          /\ dev'[lastOp'.dev].cur_config_buf = lastOp'.new
          /\ lastOp'.new # 0
          /\ va'.obj[lastOp'.new] = [surfaces |-> TRUE, config |-> TRUE, context |-> TRUE]
    /\ (lastOp'.op = "vaapi_init" /\ lastOp'.ret \notin {"OK", "SIGSEGV"}) =>
          /\ lastOp'.new # 0 => cfg'[lastOp'.new].state = "freed"
          /\ lastOp'.dev # 0 =>
                /\ dev'[lastOp'.dev].cur_config = 0
                /\ dev'[lastOp'.dev].cur_config_buf = 0

\* C17: a device's cur_config changes to a config only in a vaapi_init that returns
\* 0 after every step of vaapi_create_config succeeded; a vaapi_init that returns an
\* error has freed the config it made and left the device with cur_config and
\* cur_config_buf both NULL; a vaapi_init that returns 0 leaves both referring to
\* the config it made, which holds its device, surfaces, VAConfigID and
\* VAContextID; a freed config is never a device's current config again.
C17_CurrentConfig == [][C17_Step]_vars

\* a vaapi_init that failed at the last step of vaapi_create_config on a device that
\* had a current config: the new config is freed and the device has none
C17_FailedReinit ==
    /\ lastOp.op = "vaapi_init" /\ lastOp.fault = "config:vaCreateContext"
    /\ lastOp.ret = "UNKNOWN"
    /\ lastOp.old # 0 /\ lastOp.new # 0
    /\ cfg[lastOp.new].state = "freed"
    /\ dev[lastOp.dev].cur_config_buf = 0


\* C18: between operations the reference count of every live config is the number
\* of live frame handles checked out of its pool, plus one if a device holds it
\* as its current config.
C18_RefcountBalance ==
    \A c \in CfgIds :
        cfg[c].state = "live" =>
            cfg[c].refcount =
                Cardinality({i \in Slots : handles[c][i] > 0})
                    + (IF \E d \in DevIds : dev[d].cur_config_buf = c THEN 1 ELSE 0)


\* what C19 says of one call of vaapi_get_buffer
C19_Step ==
    (lastOp'.op = "vaapi_get_buffer" /\ lastOp'.ret = "OK") =>
        LET c == lastOp'.cfg
            i == lastOp'.slot
        IN  /\ FreeSlots(c) # {}
            /\ i = Lowest(FreeSlots(c))
            /\ cfg'[c].surface_used = [cfg[c].surface_used EXCEPT ![i] = 1]
            /\ handles' = [handles EXCEPT ![c][i] = @ + 1]
            /\ cfg'[c].surfaces = "valid"
            /\ lastOp'.surface = surface_id(c, i)

\* C19: a vaapi_get_buffer that returns 0 hands out the lowest-indexed slot whose
\* flag was 0 when it was called, sets the flag of that slot and of no other, and
\* puts config->surfaces[i] of that same index in frame->data[3].
C19_LowestFree == [][C19_Step]_vars

\* a successful call that took a slot above slot 0 while a higher slot was free and
\* another higher slot was in use
C19_HoleFilled ==
    /\ lastOp.op = "vaapi_get_buffer" /\ lastOp.ret = "OK"
    /\ lastOp.slot > 0
    /\ \E j, k \in DOMAIN cfg[lastOp.cfg].surface_used :
          /\ j > lastOp.slot /\ cfg[lastOp.cfg].surface_used[j] = 0
          /\ k > lastOp.slot /\ cfg[lastOp.cfg].surface_used[k] = 1


\* what C20 says of one step
C20_Step ==
    /\ (lastOp'.op = "vaapi_retrieve_data" /\ lastOp'.ret = "OK") =>
          LET c == lastOp'.cfg
              i == lastOp'.slot
              d == lastOp'.dev
              freed == IF cfg'[c].state = "freed" THEN 1 ELSE 0
          IN  /\ handles[c][i] = 1
              /\ handles' = [handles EXCEPT ![c][i] = 0]
              /\ cfg'[c].state = "live" =>
                    /\ cfg'[c].surface_used[i] = 0
                    /\ cfg'[c].refcount = cfg[c].refcount - 1
              /\ cfg'[c].state # "live" =>
                    /\ cfg[c].refcount = 1
                    /\ cfg'[c].state = "freed"
              /\ images' = [images EXCEPT ![d] = @ + 1]
              /\ dev'[d].state = "live"
              /\ dev'[d].refcount = dev[d].refcount + 1 - freed
    /\ \A d \in DevIds :
          images'[d] > 0 =>
              /\ dev'[d].state = "live"
              /\ dev'[d].refcount >= images'[d]
    /\ lastOp'.op = "vaapi_free_image" =>
          LET d == lastOp'.dev
          IN  /\ images' = [images EXCEPT ![d] = @ - 1]
              /\ dev[d].refcount > 1 => dev'[d].refcount = dev[d].refcount - 1
              /\ dev[d].refcount = 1 => dev'[d].state = "freed"

\* C20: a vaapi_retrieve_data that returns 0 has released the frame's handle (its
\* slot's flag is 0 and its config has one reference less, or is freed when that
\* was its last) and left the frame holding the image buffer; every image buffer a
\* frame holds keeps one reference to the device, which is released when the
\* frame is.
C20_FrameReplaced == [][C20_Step]_vars

\* a frame that was retrieved from the pool of the current config: its slot is free
\* again and the frame holds an image
C20_Retrieved ==
    /\ lastOp.op = "vaapi_retrieve_data" /\ lastOp.ret = "OK"
    /\ cfg[lastOp.cfg].state = "live"
    /\ cfg[lastOp.cfg].surface_used[lastOp.slot] = 0
    /\ handles[lastOp.cfg][lastOp.slot] = 0
    /\ images[lastOp.dev] > 0


\* what C21 says of one call of vaapi_get_buffer
C21_Step ==
    (lastOp'.op = "vaapi_get_buffer" /\ lastOp'.ret # "OK") =>
        LET c == lastOp'.cfg
        IN  /\ cfg'[c].surface_used = cfg[c].surface_used
            /\ cfg'[c].refcount = cfg[c].refcount
            /\ handles' = handles

\* C21: a vaapi_get_buffer that fails, because no slot is free or because an
\* allocation in it failed, leaves every flag of the pool and the reference count
\* of the current config as they were before the call.
C21_FailedAcquire == [][C21_Step]_vars


\* C22: vaapi_release_buffer writes *priv->used = 0 while the handle still holds its
\* reference to the config, so in every sequence of calls the write lands in the
\* flag array of a live config, never in the memory of a config already freed.
C22_FlagBeforeUnref == ~va.stale_write

\* the last handle of a superseded config was released: the release freed the config
C22_LastHandleReleased ==
    /\ lastOp.op = "vaapi_release_buffer" /\ lastOp.ret = "OK"
    /\ cfg[lastOp.cfg].state = "freed"
    /\ \E d \in DevIds : dev[d].state = "live" /\ dev[d].cur_config > lastOp.cfg


\* nothing of the pipeline holds a frame handle or an image buffer
Drained ==
    /\ \A c \in CfgIds, i \in Slots : handles[c][i] = 0
    /\ \A d \in DevIds : images[d] = 0

\* C23: once vaapi_uninit has run and every frame handle and image buffer has been
\* released, every config and the device are destroyed and the driver holds no
\* surfaces, VAConfigID, VAContextID, image or display of theirs.
C23_AllDestroyed ==
    (Closed /\ Drained /\ ~crashed) =>
        /\ \A c \in CfgIds :
              /\ cfg[c].state \in {"none", "freed"}
              /\ va.obj[c] = NoObj
        /\ \A d \in DevIds :
              /\ dev[d].state \in {"none", "freed"}
              /\ va.conn[d].display \in {"none", "terminated"}
        /\ va.images = 0
        /\ va.mapped = 0

=============================================================================
